---------------------------- MODULE Spec2Model ----------------------------
(***************************************************************************)
(* RAIV batch calculator (raiv_calculation_simple.py: SimpleRAIVCalculator,*)
(* raiv_calculation_model.py: RAIVCalculator) and the recommendation       *)
(* explorer (recommendations_app.py, visualizations/recommendations_app.py)*)
(*                                                                         *)
(* Numbers.  Python floats / SQLite REALs are modelled by exact extended   *)
(* rationals <<n, d>> in lowest terms with d >= 0:                          *)
(*   d > 0  : the rational n/d                                              *)
(*   <<1,0>>, <<-1,0>>, <<0,0>> : IEEE +inf, -inf, NaN (numpy only; Python  *)
(*   raises ZeroDivisionError instead of producing them).                   *)
(* SQL NULL / Python None is the empty tuple <<>>.                          *)
(***************************************************************************)
EXTENDS Integers, Sequences, FiniteSets, TLC

VARIABLES
    norm,         \* normalizer runs: [raw, simple, df]
    db,           \* trade_analysis.db: [imports, lpi, risk]
    edits_left,   \* edits the data provider may still make
    simple_out,   \* SimpleRAIVCalculator.calculate_raiv_all_years(): [ran, results]
    df_out,       \* RAIVCalculator.calculate_raiv_all_years(): [ran, results]
    app,          \* the explorer script in use: "agg", "viz" or "" (none)
    raiv_df,      \* the explorer's cached load_data() table
    widgets,      \* the explorer's widget values
    page,         \* what the explorer's last script run rendered
    stats,        \* generate_summary_statistics: [results, simple, df]
    persisted     \* raiv_results.csv and table RAIV_Results, as main() left them

vars ==
    <<norm, db, edits_left, simple_out, df_out, app, raiv_df, widgets, page, stats,
      persisted>>
batch_vars == <<norm, db, edits_left, simple_out, df_out>>
explorer_vars == <<app, raiv_df, widgets, page>>

NULL == <<>>

(***************************************************************************)
(* Exact arithmetic on extended rationals                                  *)
(***************************************************************************)
Abs(x) == IF x < 0 THEN -x ELSE x

RECURSIVE GCD(_, _)
GCD(a, b) == IF b = 0 THEN a ELSE GCD(b, a % b)

Sign(x) == IF x > 0 THEN 1 ELSE IF x < 0 THEN -1 ELSE 0

\* n/d in lowest terms with a positive denominator; x/0 is the IEEE result.
Q(n, d) ==
    IF d = 0 THEN <<Sign(n), 0>>
    ELSE LET g == GCD(Abs(n), Abs(d))
             s == IF d < 0 THEN -1 ELSE 1
         IN  <<s * (n \div g), s * (d \div g)>>

IsFinite(x) == x[2] > 0
IsNaN(x) == x = <<0, 0>>
Zero == <<0, 1>>
One == <<1, 1>>
FromInt(i) == <<i, 1>>

\* IEEE semantics for the non-finite operands (inf - inf = NaN, ...).
RAdd(x, y) ==
    IF IsFinite(x) /\ IsFinite(y) THEN Q(x[1] * y[2] + y[1] * x[2], x[2] * y[2])
    ELSE IF IsNaN(x) \/ IsNaN(y) THEN <<0, 0>>
    ELSE IF ~IsFinite(x) /\ ~IsFinite(y) THEN (IF x = y THEN x ELSE <<0, 0>>)
    ELSE IF IsFinite(x) THEN y ELSE x

RNeg(x) == <<-x[1], x[2]>>
RSub(x, y) == RAdd(x, RNeg(y))

RMul(x, y) ==
    IF IsFinite(x) /\ IsFinite(y) THEN Q(x[1] * y[1], x[2] * y[2])
    ELSE <<Sign(x[1]) * Sign(y[1]), 0>>

\* IEEE division (numpy): x/0 = +-inf, 0/0 = NaN, x/inf = 0.
RDiv(x, y) ==
    IF IsFinite(x) /\ IsFinite(y) THEN Q(x[1] * y[2], x[2] * y[1])
    ELSE IF IsNaN(x) \/ IsNaN(y) THEN <<0, 0>>
    ELSE IF IsFinite(x) THEN Zero
    ELSE IF IsFinite(y) THEN <<Sign(x[1]) * (IF y[1] < 0 THEN -1 ELSE 1), 0>>
    ELSE <<0, 0>>

RECURSIVE RPow(_, _)
\* math.pow / np.power with exponent t in 0..2; x^0 = 1 for every x.
RPow(x, t) == IF t = 0 THEN One ELSE RMul(x, RPow(x, t - 1))

\* x < y on finite rationals and infinities; every comparison with NaN is false.
RLess(x, y) ==
    IF IsNaN(x) \/ IsNaN(y) THEN FALSE
    ELSE IF IsFinite(x) /\ IsFinite(y) THEN x[1] * y[2] < y[1] * x[2]
    ELSE IF IsFinite(x) THEN y[1] > 0
    ELSE IF IsFinite(y) THEN x[1] < 0
    ELSE x[1] < y[1]

RECURSIVE RSum(_)
RSum(s) == IF s = <<>> THEN Zero ELSE RAdd(Head(s), RSum(Tail(s)))

(***************************************************************************)
(* Country name normalizer                                                 *)
(***************************************************************************)
\* SimpleRAIVCalculator.name_mappings
name_mappings ==
    [k \in {} |-> ""]
    @@ "France+Monac" :> "France"
    @@ "Switz.Leicht" :> "Switzerland"
    @@ "Korea Rep." :> "South Korea"
    @@ "Norway,Sb,JM" :> "Norway"
    @@ "Ireland" :> "Republic of Ireland"
    @@ "Luxemberg" :> "Luxembourg"
    @@ "Czech Rep" :> "Czech Republic"
    @@ "Viet Nam" :> "Vietnam"
    @@ "TFYR Macedna" :> "North Macedonia"
    @@ "Bosnia Herzg" :> "Bosnia and Herzegovina"
    @@ "Antigua,Barb" :> "Antigua and Barbuda"
    @@ "Solomon Is" :> "Solomon Islands"
    @@ "Bahamas" :> "Bahamas, The"
    @@ "Papua N.Guin" :> "Papua New Guinea"
    @@ "Dem.Rp.Congo" :> "Democratic Republic of the Congo"
    @@ "Dominican Rp" :> "Dominican Republic"
    @@ "GuineaBissau" :> "Guinea-Bissau"
    @@ "Russian Fed" :> "Russia"
    @@ "Rep.Moldova" :> "Moldova"
    @@ "Trinidad Tbg" :> "Trinidad and Tobago"
    @@ "Lao P.Dem.R" :> "Laos"
    @@ "Gambia" :> "The Gambia"
    @@ "Iran-Islam.R" :> "Iran"
    @@ "Kyrgyzstan" :> "Kyrgyz Republic"
    @@ "Venezuela" :> "Venezuela, RB"
    @@ "Yemen" :> "Yemen, Rep."

\* RAIVCalculator.normalize_country_names: its local name_mappings
df_name_mappings ==
    [k \in {} |-> ""]
    @@ "France+Monac" :> "France"
    @@ "Switz.Leicht" :> "Switzerland"
    @@ "Korea Rep." :> "South Korea"
    @@ "Norway,Sb,JM" :> "Norway"
    @@ "Ireland" :> "Republic of Ireland"
    @@ "Luxemberg" :> "Luxembourg"
    @@ "Czech Rep" :> "Czech Republic"
    @@ "Viet Nam" :> "Vietnam"
    @@ "TFYR Macedna" :> "North Macedonia"
    @@ "Bosnia Herzg" :> "Bosnia and Herzegovina"
    @@ "Antigua,Barb" :> "Antigua and Barbuda"
    @@ "Solomon Is" :> "Solomon Islands"
    @@ "Bahamas" :> "Bahamas, The"
    @@ "Papua N.Guin" :> "Papua New Guinea"
    @@ "Dem.Rp.Congo" :> "Democratic Republic of the Congo"
    @@ "Dominican Rp" :> "Dominican Republic"
    @@ "GuineaBissau" :> "Guinea-Bissau"
    @@ "Russian Fed" :> "Russia"
    @@ "Rep.Moldova" :> "Moldova"
    @@ "Trinidad Tbg" :> "Trinidad and Tobago"
    @@ "Lao P.Dem.R" :> "Laos"
    @@ "Gambia" :> "The Gambia"
    @@ "Iran-Islam.R" :> "Iran"
    @@ "Kyrgyzstan" :> "Kyrgyz Republic"
    @@ "Venezuela" :> "Venezuela, RB"
    @@ "Yemen" :> "Yemen, Rep."

\* A plausible slip: a reverse entry added to the table, so that a canonical
\* name is itself a key.
normalize_country_name_chained(country) ==
    LET m == name_mappings @@ ("Republic of Ireland" :> "Ireland")
    IN  IF country \in DOMAIN m THEN m[country] ELSE country

\* dict.get(country, country)
normalize_country_name(country) ==
    IF country \in DOMAIN name_mappings THEN name_mappings[country] ELSE country

\* Series.replace(name_mappings): one simultaneous lookup per cell.
replace(value, mappings) ==
    IF value \in DOMAIN mappings THEN mappings[value] ELSE value

\* A plausible slip: the result of Series.replace is not assigned back.
normalize_country_names_unassigned(df) == df

\* df.copy(); df_norm[country_col] = df_norm[country_col].replace(name_mappings)
normalize_country_names(df) ==
    [i \in DOMAIN df |-> [df[i] EXCEPT !.Country = replace(@, df_name_mappings)]]

Range(f) == {f[k] : k \in DOMAIN f}

\* Labels the normalizer is exercised on: every key, every canonical value,
\* and labels the table does not mention.
Unmapped == {"USA", "World", "france+monac"}
NormLabels == DOMAIN name_mappings \cup Range(name_mappings) \cup Unmapped

MaxNormRuns == 2

NormIdle == [raw |-> "", simple |-> <<>>, df |-> <<>>]

\* One more application of SimpleRAIVCalculator.normalize_country_name to its
\* own previous output.
NormalizeSimple ==
    /\ norm.raw # ""
    /\ Len(norm.simple) < MaxNormRuns
    /\ LET x == IF norm.simple = <<>> THEN norm.raw
                ELSE norm.simple[Len(norm.simple)]
       IN  norm' = [norm EXCEPT !.simple = Append(@, normalize_country_name(x))]
    /\ UNCHANGED <<db, edits_left, simple_out, df_out, explorer_vars, stats, persisted>>

\* One more application of RAIVCalculator.normalize_country_names to a
\* one-row frame holding its own previous output.
NormalizeDF ==
    /\ norm.raw # ""
    /\ Len(norm.df) < MaxNormRuns
    /\ LET x == IF norm.df = <<>> THEN norm.raw ELSE norm.df[Len(norm.df)]
           out == normalize_country_names(<<[Country |-> x]>>)
       IN  norm' = [norm EXCEPT !.df = Append(@, out[1].Country)]
    /\ UNCHANGED <<db, edits_left, simple_out, df_out, explorer_vars, stats, persisted>>

(***************************************************************************)
(* trade_analysis.db                                                       *)
(***************************************************************************)
\* for year in [2022, 2023, 2024]
YearList == <<2022, 2023, 2024>>
YearSet == {YearList[i] : i \in DOMAIN YearList}

\* t_values = {2022: 0, 2023: 1, 2024: 2}
t_values == 2022 :> 0 @@ 2023 :> 1 @@ 2024 :> 2

\* Values the data provider may put in the source tables.
PartnerLabels == {"World", "USA", "France", "France+Monac"}
EconomyLabels == {"USA", "France", "France+Monac"}
TradeValues == {50}
TimelinessScores == {NULL, <<4, 1>>}
RiskPremiums == {NULL, <<1, 20>>, <<-1, 1>>}

\* Total number of edits (rows inserted, tables dropped) of the data provider.
MaxEdits == 4

\* Code-point order of the labels (Python str comparison, SQLite BINARY
\* collation).
LabelOrder ==
    <<"Canada", "France", "France+Monac", "Germany", "Mexico", "Thailand", "USA",
      "Vietnam", "World">>
Rank(s) == CHOOSE i \in DOMAIN LabelOrder : LabelOrder[i] = s
StrLess(a, b) == Rank(a) < Rank(b)

NoTable == [exists |-> FALSE, rows |-> <<>>]
EmptyTable == [exists |-> TRUE, rows |-> <<>>]

ImportRowLeq(r, s) ==
    \/ StrLess(r.PartnerName, s.PartnerName)
    \/ /\ r.PartnerName = s.PartnerName
       /\ r.TradeValuein1000USD <= s.TradeValuein1000USD

\* DROP TABLE Cleaned_Imports_<year> / LPI_2023_only / Risk_Premium_Lookup:
\* a source table the queries will not find.
DropImportTable(year) ==
    /\ norm = NormIdle
    /\ ~simple_out.ran /\ ~df_out.ran
    /\ edits_left > 0
    /\ db.imports[year] = EmptyTable
    /\ db' = [db EXCEPT !.imports[year] = NoTable]
    /\ edits_left' = edits_left - 1
    /\ UNCHANGED <<norm, simple_out, df_out, explorer_vars, stats, persisted>>

DropLpiTable ==
    /\ norm = NormIdle
    /\ ~simple_out.ran /\ ~df_out.ran
    /\ edits_left > 0
    /\ db.lpi = EmptyTable
    /\ db' = [db EXCEPT !.lpi = NoTable]
    /\ edits_left' = edits_left - 1
    /\ UNCHANGED <<norm, simple_out, df_out, explorer_vars, stats, persisted>>

DropRiskTable ==
    /\ norm = NormIdle
    /\ ~simple_out.ran /\ ~df_out.ran
    /\ edits_left > 0
    /\ db.risk = EmptyTable
    /\ db' = [db EXCEPT !.risk = NoTable]
    /\ edits_left' = edits_left - 1
    /\ UNCHANGED <<norm, simple_out, df_out, explorer_vars, stats, persisted>>

\* INSERT INTO Cleaned_Imports_<year> (PartnerName, TradeValuein1000USD).
\* The table is a multiset and the import query groups and sums it, so the
\* rows of each multiset are kept in one order.
InsertImportRow(year, partner, value) ==
    /\ norm = NormIdle
    /\ ~simple_out.ran /\ ~df_out.ran
    /\ edits_left > 0
    /\ db.imports[year].exists
    /\ LET row == [PartnerName |-> partner, TradeValuein1000USD |-> value]
           rows == db.imports[year].rows
           before == SelectSeq(rows, LAMBDA r : ImportRowLeq(r, row))
           after == SelectSeq(rows, LAMBDA r : ~ImportRowLeq(r, row))
       IN  db' = [db EXCEPT !.imports[year].rows = before \o <<row>> \o after]
    /\ edits_left' = edits_left - 1
    /\ UNCHANGED <<norm, simple_out, df_out, explorer_vars, stats, persisted>>

\* INSERT INTO LPI_2023_only (Economy, TimelinessScore)
InsertLpiRow(economy, score) ==
    /\ norm = NormIdle
    /\ ~simple_out.ran /\ ~df_out.ran
    /\ edits_left > 0
    /\ db.lpi.exists
    /\ db' = [db EXCEPT !.lpi.rows =
                 Append(@, [Economy |-> economy, TimelinessScore |-> score])]
    /\ edits_left' = edits_left - 1
    /\ UNCHANGED <<norm, simple_out, df_out, explorer_vars, stats, persisted>>

\* INSERT INTO Risk_Premium_Lookup (Economy, RiskPremium)
InsertRiskRow(economy, premium) ==
    /\ norm = NormIdle
    /\ ~simple_out.ran /\ ~df_out.ran
    /\ edits_left > 0
    /\ db.risk.exists
    /\ db' = [db EXCEPT !.risk.rows =
                 Append(@, [Economy |-> economy, RiskPremium |-> premium])]
    /\ edits_left' = edits_left - 1
    /\ UNCHANGED <<norm, simple_out, df_out, explorer_vars, stats, persisted>>

(***************************************************************************)
(* The three queries (the same SQL text in both implementations)           *)
(***************************************************************************)
\* The members of S in ascending code-point order.
SortedLabels(S) == SelectSeq(LabelOrder, LAMBDA l : l \in S)

\* SELECT PartnerName as Country, SUM(TradeValuein1000USD) as ImportValue
\* FROM Cleaned_Imports_<year> WHERE PartnerName != 'World'
\* GROUP BY PartnerName         (SQLite emits the groups in key order)
ImportQuery(rows) ==
    LET kept == SelectSeq(rows, LAMBDA r : r.PartnerName # "World")
        names == SortedLabels({kept[i].PartnerName : i \in DOMAIN kept})
        total(name) ==
            LET vals == SelectSeq(kept, LAMBDA r : r.PartnerName = name)
            IN  RSum([i \in DOMAIN vals |-> FromInt(vals[i].TradeValuein1000USD)])
    IN  [i \in DOMAIN names |-> [Country |-> names[i], ImportValue |-> total(names[i])]]

\* SELECT Economy as Country, TimelinessScore FROM LPI_2023_only
\* WHERE TimelinessScore IS NOT NULL
LpiQuery(rows) ==
    LET kept == SelectSeq(rows, LAMBDA r : r.TimelinessScore # NULL)
    IN  [i \in DOMAIN kept |->
            [Country |-> kept[i].Economy, TimelinessScore |-> kept[i].TimelinessScore]]

\* SELECT Economy as Country, RiskPremium FROM Risk_Premium_Lookup
\* WHERE RiskPremium IS NOT NULL
RiskQuery(rows) ==
    LET kept == SelectSeq(rows, LAMBDA r : r.RiskPremium # NULL)
    IN  [i \in DOMAIN kept |->
            [Country |-> kept[i].Economy, RiskPremium |-> kept[i].RiskPremium]]

(***************************************************************************)
(* SimpleRAIVCalculator (raiv_calculation_simple.py)                       *)
(* A Python dict is a sequence of [key, value] entries in insertion order. *)
(* A call that can raise returns [raised, ...].                            *)
(***************************************************************************)
DictHas(d, k) == \E i \in DOMAIN d : d[i].key = k
DictGet(d, k) == d[CHOOSE i \in DOMAIN d : d[i].key = k].value

\* d[k] = v : an existing key keeps its position and takes the new value.
DictSet(d, k, v) ==
    IF DictHas(d, k)
    THEN [i \in DOMAIN d |-> IF d[i].key = k THEN [key |-> k, value |-> v] ELSE d[i]]
    ELSE Append(d, [key |-> k, value |-> v])

\* for row in cursor.fetchall():
\*     country = self.normalize_country_name(row['Country'])
\*     data[country] = row[<column>]
FetchIntoDict(rows, column) ==
    LET f[i \in 0..Len(rows)] ==
            IF i = 0 THEN <<>>
            ELSE DictSet(f[i - 1], normalize_country_name(rows[i].Country),
                         rows[i][column])
    IN  f[Len(rows)]

\* cursor.execute raises sqlite3.OperationalError when the table is missing.
SimpleRAIVCalculator_get_import_data(year) ==
    IF ~db.imports[year].exists THEN [raised |-> TRUE, data |-> <<>>]
    ELSE [raised |-> FALSE,
          data |-> FetchIntoDict(ImportQuery(db.imports[year].rows), "ImportValue")]

SimpleRAIVCalculator_get_lpi_data ==
    IF ~db.lpi.exists THEN [raised |-> TRUE, data |-> <<>>]
    ELSE [raised |-> FALSE,
          data |-> FetchIntoDict(LpiQuery(db.lpi.rows), "TimelinessScore")]

SimpleRAIVCalculator_get_risk_premium_data ==
    IF ~db.risk.exists THEN [raised |-> TRUE, data |-> <<>>]
    ELSE [raised |-> FALSE,
          data |-> FetchIntoDict(RiskQuery(db.risk.rows), "RiskPremium")]

\* A plausible slip: the discount is applied once whatever the year.
SimpleFormula_flat_discount(import_value, timeliness_score, risk_premium, t) ==
    LET divisor == RAdd(One, risk_premium)
    IN  IF divisor = Zero THEN [raised |-> TRUE, raiv |-> Zero]
        ELSE [raised |-> FALSE,
              raiv |-> RDiv(RMul(import_value, timeliness_score), divisor)]

\* raiv = (import_value * timeliness_score) / math.pow(1 + risk_premium, t)
\* Python raises ZeroDivisionError on a zero divisor.
SimpleFormula(import_value, timeliness_score, risk_premium, t) ==
    LET divisor == RPow(RAdd(One, risk_premium), t)
    IN  IF divisor = Zero THEN [raised |-> TRUE, raiv |-> Zero]
        ELSE [raised |-> FALSE,
              raiv |-> RDiv(RMul(import_value, timeliness_score), divisor)]

\* A plausible slip: risk_data.get(country, 0) in place of the membership test.
SimpleJoin_default_risk(year, t, import_data, lpi_data, risk_data) ==
    LET complete == SelectSeq(import_data, LAMBDA e : DictHas(lpi_data, e.key))
        risk(e) == IF DictHas(risk_data, e.key) THEN DictGet(risk_data, e.key) ELSE Zero
        raiv(e) == SimpleFormula(e.value, DictGet(lpi_data, e.key), risk(e), t)
    IN  IF \E i \in DOMAIN complete : raiv(complete[i]).raised
        THEN [raised |-> TRUE, results |-> <<>>]
        ELSE [raised |-> FALSE,
              results |-> [i \in DOMAIN complete |->
                  [Country |-> complete[i].key,
                   Year |-> year,
                   ImportValue |-> complete[i].value,
                   TimelinessScore |-> DictGet(lpi_data, complete[i].key),
                   RiskPremium |-> risk(complete[i]),
                   t_value |-> t,
                   RAIV |-> raiv(complete[i]).raiv]]]

\* for country in import_data:
\*     if country in lpi_data and country in risk_data: ... results.append({...})
SimpleJoin(year, t, import_data, lpi_data, risk_data) ==
    LET complete == SelectSeq(import_data,
                        LAMBDA e : DictHas(lpi_data, e.key) /\ DictHas(risk_data, e.key))
        raiv(e) == SimpleFormula(e.value, DictGet(lpi_data, e.key),
                                 DictGet(risk_data, e.key), t)
    IN  IF \E i \in DOMAIN complete : raiv(complete[i]).raised
        THEN [raised |-> TRUE, results |-> <<>>]
        ELSE [raised |-> FALSE,
              results |-> [i \in DOMAIN complete |->
                  [Country |-> complete[i].key,
                   Year |-> year,
                   ImportValue |-> complete[i].value,
                   TimelinessScore |-> DictGet(lpi_data, complete[i].key),
                   RiskPremium |-> DictGet(risk_data, complete[i].key),
                   t_value |-> t,
                   RAIV |-> raiv(complete[i]).raiv]]]

SimpleRAIVCalculator_calculate_raiv_for_year(year) ==
    LET t == t_values[year]
        import_data == SimpleRAIVCalculator_get_import_data(year)
        lpi_data == SimpleRAIVCalculator_get_lpi_data
        risk_data == SimpleRAIVCalculator_get_risk_premium_data
    IN  IF import_data.raised \/ lpi_data.raised \/ risk_data.raised
        THEN [raised |-> TRUE, results |-> <<>>]
        ELSE SimpleJoin(year, t, import_data.data, lpi_data.data, risk_data.data)

\* The sort key (x['Country'], x['Year']) and its tuple comparison.
KeyLess(a, b) ==
    \/ StrLess(a.Country, b.Country)
    \/ a.Country = b.Country /\ a.Year < b.Year

\* A stable sort by that key (list.sort, DataFrame.sort_values on several
\* columns): each element goes after the elements that do not compare greater.
InsertStable(sorted, x) ==
    LET greater == {i \in DOMAIN sorted : KeyLess(x, sorted[i])}
        p == IF greater = {} THEN Len(sorted) + 1
             ELSE CHOOSE i \in greater : \A j \in greater : i <= j
    IN  SubSeq(sorted, 1, p - 1) \o <<x>> \o SubSeq(sorted, p, Len(sorted))

\* The concatenation left in the order the years were calculated.
StableSort_unsorted(s) == s

StableSort(s) ==
    LET f[i \in 0..Len(s)] ==
            IF i = 0 THEN <<>> ELSE InsertStable(f[i - 1], s[i])
    IN  f[Len(s)]

\* The loop without its try/except: one failing year ends the whole run.
SimpleRAIVCalculator_calculate_raiv_all_years_unguarded ==
    IF \E y \in YearSet : SimpleRAIVCalculator_calculate_raiv_for_year(y).raised
    THEN <<>>
    ELSE StableSort(SimpleRAIVCalculator_calculate_raiv_for_year(2022).results
                    \o SimpleRAIVCalculator_calculate_raiv_for_year(2023).results
                    \o SimpleRAIVCalculator_calculate_raiv_for_year(2024).results)
\* for year in [2022, 2023, 2024]: try: all_results.extend(...) except: print
\* all_results.sort(key=lambda x: (x['Country'], x['Year']))
SimpleRAIVCalculator_calculate_raiv_all_years ==
    LET f[i \in 0..Len(YearList)] ==
            IF i = 0 THEN <<>>
            ELSE LET year_results ==
                         SimpleRAIVCalculator_calculate_raiv_for_year(YearList[i])
                 IN  IF year_results.raised THEN f[i - 1]
                     ELSE f[i - 1] \o year_results.results
    IN  StableSort(f[Len(YearList)])

\* results = calculator.calculate_raiv_all_years()
SimpleRun ==
    /\ norm = NormIdle
    /\ ~simple_out.ran
    /\ simple_out' = [ran |-> TRUE,
                      results |-> SimpleRAIVCalculator_calculate_raiv_all_years]
    /\ UNCHANGED <<norm, db, edits_left, df_out, explorer_vars, stats, persisted>>

(***************************************************************************)
(* RAIVCalculator (raiv_calculation_model.py)                              *)
(* A DataFrame is the sequence of its rows; pd.DataFrame() is <<>>.        *)
(***************************************************************************)
\* try: pd.read_sql_query(query, self.conn) except Exception: pd.DataFrame()
RAIVCalculator_get_import_data(year) ==
    IF ~db.imports[year].exists THEN <<>> ELSE ImportQuery(db.imports[year].rows)

RAIVCalculator_get_lpi_data ==
    IF ~db.lpi.exists THEN <<>> ELSE LpiQuery(db.lpi.rows)

RAIVCalculator_get_risk_premium_data ==
    IF ~db.risk.exists THEN <<>> ELSE RiskQuery(db.risk.rows)

\* left.merge(right, on='Country', how='inner'): every pair of rows with the
\* same Country, in the order of the left rows, then of the right rows.
RECURSIVE Flatten(_)
Flatten(ss) == IF ss = <<>> THEN <<>> ELSE Head(ss) \o Flatten(Tail(ss))

merge(left, right) ==
    Flatten([i \in DOMAIN left |->
        LET matches == SelectSeq(right, LAMBDA r : r.Country = left[i].Country)
        IN  [j \in DOMAIN matches |-> left[i] @@ matches[j]]])

\* merged_df['ImportValue'] * merged_df['TimelinessScore']
\*     / np.power(1 + merged_df['RiskPremium'], t)      (IEEE, never raises)
DFFormula(import_value, timeliness_score, risk_premium, t) ==
    RDiv(RMul(import_value, timeliness_score), RPow(RAdd(One, risk_premium), t))

RAIVCalculator_calculate_raiv_for_year(year) ==
    LET t == t_values[year]
        import_df == RAIVCalculator_get_import_data(year)
        lpi_df == RAIVCalculator_get_lpi_data
        risk_df == RAIVCalculator_get_risk_premium_data
    IN  IF import_df = <<>> \/ lpi_df = <<>> \/ risk_df = <<>> THEN <<>>
        ELSE LET merged_df ==
                     merge(merge(normalize_country_names(import_df),
                                 normalize_country_names(lpi_df)),
                           normalize_country_names(risk_df))
             IN  [i \in DOMAIN merged_df |->
                     [Country |-> merged_df[i].Country,
                      Year |-> year,
                      ImportValue |-> merged_df[i].ImportValue,
                      TimelinessScore |-> merged_df[i].TimelinessScore,
                      RiskPremium |-> merged_df[i].RiskPremium,
                      t_value |-> t,
                      RAIV |-> DFFormula(merged_df[i].ImportValue,
                                         merged_df[i].TimelinessScore,
                                         merged_df[i].RiskPremium, t)]]

\* pd.concat(all_results, ignore_index=True).sort_values(['Country', 'Year'])
RAIVCalculator_calculate_raiv_all_years ==
    LET f[i \in 0..Len(YearList)] ==
            IF i = 0 THEN <<>>
            ELSE f[i - 1] \o RAIVCalculator_calculate_raiv_for_year(YearList[i])
    IN  StableSort(f[Len(YearList)])

\* raiv_results = calculator.calculate_raiv_all_years()
DFRun ==
    /\ norm = NormIdle
    /\ ~df_out.ran
    /\ df_out' = [ran |-> TRUE, results |-> RAIVCalculator_calculate_raiv_all_years]
    /\ UNCHANGED <<norm, db, edits_left, simple_out, explorer_vars, stats, persisted>>

(***************************************************************************)
(* Recommendation explorer                                                 *)
(*   "agg": recommendations_app.py (filters and aggregates per country)    *)
(*   "viz": visualizations/recommendations_app.py (scores the rows as      *)
(*          loaded; its load_data body is taken as the return statement    *)
(*          of line 8)                                                     *)
(* Streamlit reruns the whole script on every widget change, so every      *)
(* handler below sets one widget and renders the page anew.                *)
(***************************************************************************)
\* st.slider("How many results to show?", 5, 50 or 25, 10)
TopNMin == 5
TopNDefault == 10
AggTopNMax == 50
VizTopNMax == 25
TopNMax(a) == IF a = "agg" THEN AggTopNMax ELSE VizTopNMax

\* The weight sliders' default values.
DefaultWeights(a) ==
    IF a = "agg"
    THEN [raiv_weight |-> Q(1, 10), timeliness_weight |-> Q(9, 20), risk_weight |-> Q(9, 20)]
    ELSE [raiv_weight |-> Q(4, 10), timeliness_weight |-> Q(3, 10), risk_weight |-> Q(3, 10)]

available_hs_codes(df) == {df[i].HS_Code : i \in DOMAIN df}
available_years(df) == {df[i].Year : i \in DOMAIN df}

\* Widget values of a fresh session; "viz" has no filters.
DefaultWidgets(a, df) ==
    [raiv_weight |-> DefaultWeights(a).raiv_weight,
     timeliness_weight |-> DefaultWeights(a).timeliness_weight,
     risk_weight |-> DefaultWeights(a).risk_weight,
     selected_hs_codes |-> IF a = "agg" THEN available_hs_codes(df) ELSE {},
     selected_years |-> IF a = "agg" THEN available_years(df) ELSE {},
     top_n |-> TopNDefault]

\* Nothing rendered yet.  A page is [status, error, weights, raiv_df (the
\* script's own raiv_df as the run leaves it), filtered_df, scored_df, top_df,
\* table_shown (st.dataframe), download (st.download_button), csv].
NoPage ==
    [status |-> "none", error |-> "", weights |-> <<>>, raiv_df |-> <<>>,
     filtered_df |-> <<>>, scored_df |-> <<>>, top_df |-> <<>>,
     table_shown |-> FALSE, download |-> FALSE, csv |-> <<>>]

\* "Normalize weights" with a total of zero dividing anyway (0/0).
normalize_weights_unguarded(raiv_weight, timeliness_weight, risk_weight) ==
    LET total == RAdd(RAdd(raiv_weight, timeliness_weight), risk_weight)
    IN  [stopped |-> FALSE,
         raiv_weight |-> RDiv(raiv_weight, total),
         timeliness_weight |-> RDiv(timeliness_weight, total),
         risk_weight |-> RDiv(risk_weight, total)]
\* "Normalize weights": st.error and st.stop() on a total of zero, the same
\* lines in both scripts.
normalize_weights(raiv_weight, timeliness_weight, risk_weight) ==
    LET total == RAdd(RAdd(raiv_weight, timeliness_weight), risk_weight)
    IN  IF total = Zero
        THEN [stopped |-> TRUE, raiv_weight |-> raiv_weight,
              timeliness_weight |-> timeliness_weight, risk_weight |-> risk_weight]
        ELSE [stopped |-> FALSE,
              raiv_weight |-> RDiv(raiv_weight, total),
              timeliness_weight |-> RDiv(timeliness_weight, total),
              risk_weight |-> RDiv(risk_weight, total)]

\* The filter with the two conditions joined by "or".
filter_rows_either(df, selected_hs_codes, selected_years) ==
    SelectSeq(df, LAMBDA r : r.HS_Code \in selected_hs_codes \/ r.Year \in selected_years)
\* filtered_df = raiv_df[HS Code isin selected & Year isin selected].copy()
filter_rows(df, selected_hs_codes, selected_years) ==
    SelectSeq(df, LAMBDA r : r.HS_Code \in selected_hs_codes /\ r.Year \in selected_years)

Column(df, name) == [i \in DOMAIN df |-> df[i][name]]

\* Series.mean()
Mean(s) == RDiv(RSum(s), FromInt(Len(s)))

\* groupby('PartnerName').agg(sum, mean, mean).reset_index(): one row per
\* group key, keys in ascending order.
groupby_agg(filtered_df) ==
    LET keys == SortedLabels({filtered_df[i].PartnerName : i \in DOMAIN filtered_df})
        group(k) == SelectSeq(filtered_df, LAMBDA r : r.PartnerName = k)
    IN  [i \in DOMAIN keys |->
            [PartnerName |-> keys[i],
             RAIV |-> RSum(Column(group(keys[i]), "RAIV")),
             TimelinessScore |-> Mean(Column(group(keys[i]), "TimelinessScore")),
             RiskScore |-> Mean(Column(group(keys[i]), "RiskScore"))]]

\* s.max() if not s.isnull().all() else 1   (max skips NaN)
max_or_one(s) ==
    LET present == {s[i] : i \in {j \in DOMAIN s : ~IsNaN(s[j])}}
    IN  IF present = {} THEN One
        ELSE CHOOSE x \in present : \A y \in present : ~RLess(x, y)

\* aggregated_df["CompositeScore"] = RAIV/max_raiv*w + Timeliness/5*w + (1 - Risk/max_risk)*w
agg_composite_score(aggregated_df, w) ==
    LET max_raiv == max_or_one(Column(aggregated_df, "RAIV"))
        max_risk == max_or_one(Column(aggregated_df, "RiskScore"))
    IN  [i \in DOMAIN aggregated_df |->
            [PartnerName |-> aggregated_df[i].PartnerName,
             RAIV |-> aggregated_df[i].RAIV,
             TimelinessScore |-> aggregated_df[i].TimelinessScore,
             RiskScore |-> aggregated_df[i].RiskScore,
             CompositeScore |->
                RAdd(RAdd(RMul(RDiv(aggregated_df[i].RAIV, max_raiv), w.raiv_weight),
                          RMul(RDiv(aggregated_df[i].TimelinessScore, FromInt(5)),
                               w.timeliness_weight)),
                     RMul(RSub(One, RDiv(aggregated_df[i].RiskScore, max_risk)),
                          w.risk_weight))]]

\* raiv_df["CompositeScore"] = w*RAIV + w*TimelinessScore + w*(1 - RiskScore)
viz_composite_score(df, w) ==
    [i \in DOMAIN df |->
        [PartnerName |-> df[i].PartnerName,
         HS_Code |-> df[i].HS_Code,
         Year |-> df[i].Year,
         RAIV |-> df[i].RAIV,
         TimelinessScore |-> df[i].TimelinessScore,
         RiskScore |-> df[i].RiskScore,
         CompositeScore |->
            RAdd(RAdd(RMul(w.raiv_weight, df[i].RAIV),
                      RMul(w.timeliness_weight, df[i].TimelinessScore)),
                 RMul(w.risk_weight, RSub(One, df[i].RiskScore)))]]

RECURSIVE Descending(_, _)
\* Every arrangement of the rows idx of df in non-increasing CompositeScore.
Descending(df, idx) ==
    IF idx = {} THEN {<<>>}
    ELSE UNION {{<<df[m]>> \o rest : rest \in Descending(df, idx \ {m})} :
                m \in {i \in idx : \A j \in idx :
                          ~RLess(df[i].CompositeScore, df[j].CompositeScore)}}

\* df.sort_values(by="CompositeScore", ascending=False): kind="quicksort" is
\* not a stable sort (numpy's introsort partitions once there are more than
\* 17 rows, its vectorised variants at every size), so rows with equal scores
\* come out in whichever order the build produces.  NaN scores go last, in
\* input order.  The value is the set of possible results.
sort_values(df) ==
    {s \o SelectSeq(df, LAMBDA r : IsNaN(r.CompositeScore)) :
        s \in Descending(df, {i \in DOMAIN df : ~IsNaN(df[i].CompositeScore)})}

\* DataFrame.head(n)
head(df, n) == SubSeq(df, 1, IF n < Len(df) THEN n ELSE Len(df))

\* One run of the script of application a over df, the table load_data()
\* returned, with widget values w: the pages it can render.  "viz" assigns the
\* CompositeScore column to its raiv_df itself, "agg" to aggregated_df.
Script(a, df, w) ==
    LET nw == normalize_weights(w.raiv_weight, w.timeliness_weight, w.risk_weight)
        filtered_df == IF a = "agg"
                       THEN filter_rows(df, w.selected_hs_codes, w.selected_years)
                       ELSE <<>>
        scored_df == IF a = "agg"
                     THEN agg_composite_score(groupby_agg(filtered_df), nw)
                     ELSE viz_composite_score(df, nw)
    IN  IF nw.stopped
        THEN {[status |-> "error", error |-> "Total weight must be greater than 0",
               weights |-> <<>>, raiv_df |-> df, filtered_df |-> <<>>,
               scored_df |-> <<>>, top_df |-> <<>>, table_shown |-> FALSE,
               download |-> FALSE, csv |-> <<>>]}
        ELSE {[status |-> "ok", error |-> "",
               weights |-> <<nw.raiv_weight, nw.timeliness_weight, nw.risk_weight>>,
               raiv_df |-> IF a = "agg" THEN df ELSE scored_df,
               filtered_df |-> filtered_df,
               scored_df |-> scored_df,
               top_df |-> head(sorted, w.top_n),
               table_shown |-> TRUE,
               download |-> TRUE,
               csv |-> head(sorted, w.top_n)] : sorted \in sort_values(scored_df)}

\* @st.cache_data load_data(): the cache keeps the table it read and hands
\* every run a copy of it, so the cached table after a run is the table before
\* it, whatever the run did to its raiv_df (script_df).
load_data(cached, script_df) == cached

\* A rerun with widget values w.  The "How many results" slider is created
\* after st.stop(), so a stopped run drops its value.
Rerun(w) ==
    /\ page' \in Script(app, raiv_df, w)
    /\ widgets' = IF page'.status = "error" THEN [w EXCEPT !.top_n = TopNDefault] ELSE w
    /\ raiv_df' = load_data(raiv_df, page'.raiv_df)
    /\ UNCHANGED <<app, batch_vars, stats, persisted>>

\* The session's first run, with every widget at its default.
OpenApp ==
    /\ app # ""
    /\ page.status = "none"
    /\ Rerun(widgets)

SetRaivWeight(x) ==
    /\ page.status # "none"
    /\ x # widgets.raiv_weight
    /\ Rerun([widgets EXCEPT !.raiv_weight = x])

SetTimelinessWeight(x) ==
    /\ page.status # "none"
    /\ x # widgets.timeliness_weight
    /\ Rerun([widgets EXCEPT !.timeliness_weight = x])

SetRiskWeight(x) ==
    /\ page.status # "none"
    /\ x # widgets.risk_weight
    /\ Rerun([widgets EXCEPT !.risk_weight = x])

SelectHsCodes(codes) ==
    /\ page.status # "none"
    /\ app = "agg"
    /\ codes \subseteq available_hs_codes(raiv_df)
    /\ codes # widgets.selected_hs_codes
    /\ Rerun([widgets EXCEPT !.selected_hs_codes = codes])

SelectYears(years) ==
    /\ page.status # "none"
    /\ app = "agg"
    /\ years \subseteq available_years(raiv_df)
    /\ years # widgets.selected_years
    /\ Rerun([widgets EXCEPT !.selected_years = years])

SetTopN(n) ==
    /\ page.status = "ok"
    /\ n \in TopNMin..TopNMax(app)
    /\ n # widgets.top_n
    /\ Rerun([widgets EXCEPT !.top_n = n])

\* Tables the explorer is opened on.
Partners == {"Canada", "Mexico"}
HsCodes == {230910, 392690}
Years == {2022, 2023}
RowValues ==
    {[RAIV |-> FromInt(0), TimelinessScore |-> FromInt(5), RiskScore |-> FromInt(0)],
     [RAIV |-> FromInt(100), TimelinessScore |-> FromInt(4), RiskScore |-> Q(1, 20)]}
Rows ==
    {[PartnerName |-> p, HS_Code |-> h, Year |-> y, RAIV |-> v.RAIV,
      TimelinessScore |-> v.TimelinessScore, RiskScore |-> v.RiskScore] :
        p \in Partners, h \in HsCodes, y \in Years, v \in RowValues}
MaxTableRows == 2
SmallTables == UNION {[1..n -> Rows] : n \in 0..MaxTableRows}

\* Six countries, one row each, more than the smallest "How many results".
\* Row i has level i, and the better a row's level the better each of its
\* three factors, so rows tie only where levels do: row tie + 1 has the level
\* of row tie (no two rows tie for tie = 0).
WidePartners == <<"Canada", "France", "Germany", "Mexico", "Thailand", "Vietnam">>
WideLevel(i, tie) == IF i = tie + 1 THEN tie ELSE i
WideTable(tie) ==
    [i \in DOMAIN WidePartners |->
        [PartnerName |-> WidePartners[i], HS_Code |-> 230910, Year |-> 2022,
         RAIV |-> FromInt(100 * WideLevel(i, tie)),
         TimelinessScore |-> Q(WideLevel(i, tie), 2),
         RiskScore |-> Q(Len(WidePartners) + 1 - WideLevel(i, tie), 20)]]
WideTables == {WideTable(tie) : tie \in 0..(Len(WidePartners) - 1)}

\* A weight slider is moved to zero or back to its default.
WeightChoices(a, slider) == {Zero, DefaultWeights(a)[slider]}
MaxTopNSteps == 1
TopNChoices == (TopNMin..(TopNMin + MaxTopNSteps)) \cup {TopNDefault}

\* A calculator method not yet called.
NotRun == [ran |-> FALSE, results |-> <<>>]

(***************************************************************************)
(* Summary statistics                                                      *)
(***************************************************************************)
\* round(x, 4) / DataFrame.round(4): to the nearest multiple of 1/10000,
\* halves to even; NaN and the infinities stay.
Round4(x) ==
    IF ~IsFinite(x) THEN x
    ELSE LET scaled == x[1] * 10000
             fl == scaled \div x[2]
             twice_rem == 2 * (scaled - fl * x[2])
             k == IF twice_rem > x[2] \/ (twice_rem = x[2] /\ fl % 2 = 1)
                  THEN fl + 1 ELSE fl
         IN  Q(k, 10000)

\* math.sqrt / numpy sqrt, then the rounding to 4 decimals.  A root is
\* irrational in general: the value is kept exactly, by its radicand.  Root and
\* rounding are monotone, and two groups' radicands here are never so close
\* that their rounded roots would meet, so values are equal exactly when
\* their radicands are.  sqrt(NaN) is NaN.
Round4Sqrt(v) == [sqrt |-> v]

RECURSIVE sorted(_)
\* sorted(values), ascending
sorted(s) ==
    IF s = <<>> THEN <<>>
    ELSE LET rest == sorted(Tail(s))
             below == SelectSeq(rest, LAMBDA y : RLess(y, Head(s)))
             above == SelectSeq(rest, LAMBDA y : ~RLess(y, Head(s)))
         IN  below \o <<Head(s)>> \o above

\* min(values), max(values)
RMin(s) == CHOOSE x \in Range(s) : \A y \in Range(s) : ~RLess(y, x)
RMax(s) == CHOOSE x \in Range(s) : \A y \in Range(s) : ~RLess(x, y)

\* The middle value, or the average of the two middle values.
median(s) ==
    LET sorted_raiv == sorted(s)
        n == Len(s)
    IN  IF n % 2 = 1 THEN sorted_raiv[(n \div 2) + 1]
        ELSE RDiv(RAdd(sorted_raiv[n \div 2], sorted_raiv[(n \div 2) + 1]), FromInt(2))

\* sum((x - mean) ** 2 for x in values)
SquaredDeviations(s) ==
    LET mean == Mean(s)
    IN  RSum([i \in DOMAIN s |-> RMul(RSub(s[i], mean), RSub(s[i], mean))])

\* The years of the records, ascending.
sorted_years(results) ==
    SelectSeq(YearList, LAMBDA y : \E i \in DOMAIN results : results[i].Year = y)

\* SimpleRAIVCalculator.generate_summary_statistics(results)
SimpleRAIVCalculator_generate_summary_statistics(results) ==
    IF results = <<>> THEN <<>>
    ELSE LET years == sorted_years(results)
             year_results(y) == SelectSeq(results, LAMBDA r : r.Year = y)
             raiv_values(y) == Column(year_results(y), "RAIV")
             raiv_var(y) ==
                RDiv(SquaredDeviations(raiv_values(y)), FromInt(Len(raiv_values(y))))
         IN  [i \in DOMAIN years |->
                [Year |-> years[i],
                 Count |-> Len(year_results(years[i])),
                 RAIV_Mean |-> Round4(Mean(raiv_values(years[i]))),
                 RAIV_Median |-> Round4(median(raiv_values(years[i]))),
                 RAIV_Std |-> Round4Sqrt(raiv_var(years[i])),
                 RAIV_Min |-> Round4(RMin(raiv_values(years[i]))),
                 RAIV_Max |-> Round4(RMax(raiv_values(years[i]))),
                 ImportValue_Mean |->
                    Round4(Mean(Column(year_results(years[i]), "ImportValue"))),
                 TimelinessScore_Mean |->
                    Round4(Mean(Column(year_results(years[i]), "TimelinessScore"))),
                 RiskPremium_Mean |->
                    Round4(Mean(Column(year_results(years[i]), "RiskPremium")))]]

\* pandas 'std': ddof = 1, the squared deviations over N - 1 (NaN for N = 1).
pandas_std(s) == Round4Sqrt(RDiv(SquaredDeviations(s), FromInt(Len(s) - 1)))

\* RAIVCalculator.generate_summary_statistics(df)
RAIVCalculator_generate_summary_statistics(df) ==
    IF df = <<>> THEN <<>>
    ELSE LET years == sorted_years(df)
             group(y) == SelectSeq(df, LAMBDA r : r.Year = y)
         IN  [i \in DOMAIN years |->
                [Year |-> years[i],
                 RAIV_count |-> Len(group(years[i])),
                 RAIV_mean |-> Round4(Mean(Column(group(years[i]), "RAIV"))),
                 RAIV_median |-> Round4(median(Column(group(years[i]), "RAIV"))),
                 RAIV_std |-> pandas_std(Column(group(years[i]), "RAIV")),
                 RAIV_min |-> Round4(RMin(Column(group(years[i]), "RAIV"))),
                 RAIV_max |-> Round4(RMax(Column(group(years[i]), "RAIV"))),
                 ImportValue_mean |->
                    Round4(Mean(Column(group(years[i]), "ImportValue"))),
                 ImportValue_median |->
                    Round4(median(Column(group(years[i]), "ImportValue"))),
                 TimelinessScore_mean |->
                    Round4(Mean(Column(group(years[i]), "TimelinessScore"))),
                 TimelinessScore_median |->
                    Round4(median(Column(group(years[i]), "TimelinessScore"))),
                 RiskPremium_mean |->
                    Round4(Mean(Column(group(years[i]), "RiskPremium"))),
                 RiskPremium_median |->
                    Round4(median(Column(group(years[i]), "RiskPremium")))]]

NoStats == [results |-> <<>>, simple |-> NotRun, df |-> NotRun]

SimpleStats ==
    /\ ~stats.simple.ran
    /\ stats' = [stats EXCEPT !.simple =
                    [ran |-> TRUE,
                     results |-> SimpleRAIVCalculator_generate_summary_statistics(
                                     stats.results)]]
    /\ UNCHANGED <<batch_vars, explorer_vars, persisted>>

DFStats ==
    /\ ~stats.df.ran
    /\ stats' = [stats EXCEPT !.df =
                    [ran |-> TRUE,
                     results |-> RAIVCalculator_generate_summary_statistics(
                                     stats.results)]]
    /\ UNCHANGED <<batch_vars, explorer_vars, persisted>>

\* RaivRecords handed to generate_summary_statistics: years with a zero risk
\* premium and timeliness 4, so that RAIV = ImportValue / 4 whatever the year.
StatYears == {2022, 2023}
StatRaivs == {10, 20, 30}
StatRecords ==
    {[Country |-> "France", Year |-> y, ImportValue |-> FromInt(4 * v),
      TimelinessScore |-> FromInt(4), RiskPremium |-> Zero,
      t_value |-> t_values[y], RAIV |-> FromInt(v)] : y \in StatYears, v \in StatRaivs}
MaxStatRecords == 3

(***************************************************************************)
(* main(): calculate, then save to raiv_results.csv and table RAIV_Results *)
(* persisted = [csv, RAIV_Results, runs, last_results]; runs counts the    *)
(* calls of main and last_results is what the latest call calculated.      *)
(***************************************************************************)
NothingPersisted == [csv |-> <<>>, RAIV_Results |-> <<>>, runs |-> 0, last_results |-> <<>>]

\* SimpleRAIVCalculator.save_to_csv: open(filename, 'w') and all rows, or
\* nothing at all when there are no results.
save_to_csv(results, file) == IF results = <<>> THEN file ELSE results

\* SimpleRAIVCalculator.save_to_database: DROP TABLE IF EXISTS, CREATE TABLE,
\* one INSERT per result, or nothing at all when there are no results.
save_to_database(results, table) == IF results = <<>> THEN table ELSE results

\* RAIVCalculator.save_results_to_csv: df.to_csv(filename, index=False)
save_results_to_csv(df, file) == df

\* RAIVCalculator.save_results_to_database: df.to_sql(..., if_exists='replace')
save_results_to_database(df, table) == df

\* Calls of main, of either script, in one behaviour.
MaxRuns == 3

\* raiv_calculation_simple.py main(): returns before saving when nothing was
\* calculated.
SimpleMain ==
    /\ norm = NormIdle
    /\ persisted.runs < MaxRuns
    /\ LET results == SimpleRAIVCalculator_calculate_raiv_all_years
       IN  /\ simple_out' = [ran |-> TRUE, results |-> results]
           /\ persisted' =
                 IF results = <<>>
                 THEN [persisted EXCEPT !.runs = @ + 1, !.last_results = results]
                 ELSE [csv |-> save_to_csv(results, persisted.csv),
                       RAIV_Results |-> save_to_database(results, persisted.RAIV_Results),
                       runs |-> persisted.runs + 1,
                       last_results |-> results]
    /\ UNCHANGED <<norm, db, edits_left, df_out, explorer_vars, stats>>

\* raiv_calculation_model.py main(): returns before saving when the result
\* frame is empty.
DFMain ==
    /\ norm = NormIdle
    /\ persisted.runs < MaxRuns
    /\ LET raiv_results == RAIVCalculator_calculate_raiv_all_years
       IN  /\ df_out' = [ran |-> TRUE, results |-> raiv_results]
           /\ persisted' =
                 IF raiv_results = <<>>
                 THEN [persisted EXCEPT !.runs = @ + 1, !.last_results = raiv_results]
                 ELSE [csv |-> save_results_to_csv(raiv_results, persisted.csv),
                       RAIV_Results |->
                           save_results_to_database(raiv_results, persisted.RAIV_Results),
                       runs |-> persisted.runs + 1,
                       last_results |-> raiv_results]
    /\ UNCHANGED <<norm, db, edits_left, simple_out, explorer_vars, stats>>

\* Between two batch runs the data provider replaces the source tables.
ReplaceSources(d) ==
    /\ norm = NormIdle
    /\ persisted.runs < MaxRuns
    /\ d # db
    /\ db' = d
    /\ UNCHANGED <<norm, edits_left, simple_out, df_out, explorer_vars, stats, persisted>>

(***************************************************************************)
(* Specifications                                                          *)
(***************************************************************************)
ExplorerOff == app = "" /\ raiv_df = <<>> /\ widgets = <<>> /\ page = NoPage
StatsOff == stats = NoStats
EmptyDb ==
    [imports |-> [y \in YearSet |-> EmptyTable], lpi |-> EmptyTable, risk |-> EmptyTable]

\* The batch calculators over every database the data provider can build.
Init ==
    /\ norm = NormIdle
    /\ db = EmptyDb
    /\ edits_left = MaxEdits
    /\ simple_out = NotRun
    /\ df_out = NotRun
    /\ ExplorerOff
    /\ StatsOff
    /\ persisted = NothingPersisted

Provide ==
    \/ \E y \in YearSet : DropImportTable(y)
    \/ DropLpiTable
    \/ DropRiskTable
    \/ \E y \in YearSet, p \in PartnerLabels, v \in TradeValues : InsertImportRow(y, p, v)
    \/ \E e \in EconomyLabels, s \in TimelinessScores : InsertLpiRow(e, s)
    \/ \E e \in EconomyLabels, r \in RiskPremiums : InsertRiskRow(e, r)

Next == Provide \/ SimpleRun \/ DFRun

Spec == Init /\ [][Next]_vars

\* The normalizer applied, and applied again, to every label.
InitNorm ==
    /\ norm \in {[raw |-> l, simple |-> <<>>, df |-> <<>>] : l \in NormLabels}
    /\ db = EmptyDb
    /\ edits_left = 0
    /\ simple_out = NotRun
    /\ df_out = NotRun
    /\ ExplorerOff
    /\ StatsOff
    /\ persisted = NothingPersisted

NextNorm == NormalizeSimple \/ NormalizeDF

SpecNorm == InitNorm /\ [][NextNorm]_vars

\* The worked example: 2022 imports {USA: 100, <france>: 50}, LPI
\* {<france>: 4.0}, risk {<france>: 0.05}, with each <france> spelled either
\* way ("France+Monac" in the import table is the example as written).
FranceLabels == {"France", "France+Monac"}
ExampleDb(import_label, lpi_label, risk_label) ==
    [imports |->
        [y \in YearSet |->
            IF y = 2022
            THEN [exists |-> TRUE,
                  rows |-> <<[PartnerName |-> import_label, TradeValuein1000USD |-> 50],
                             [PartnerName |-> "USA", TradeValuein1000USD |-> 100]>>]
            ELSE EmptyTable],
     lpi |-> [exists |-> TRUE,
              rows |-> <<[Economy |-> lpi_label, TimelinessScore |-> <<4, 1>>]>>],
     risk |-> [exists |-> TRUE,
               rows |-> <<[Economy |-> risk_label, RiskPremium |-> <<1, 20>>]>>]]

\* Edits the data provider makes to the worked example.
ExampleEdits == 1

InitExample ==
    /\ norm = NormIdle
    /\ db \in {ExampleDb(a, b, c) : a, b, c \in FranceLabels}
    /\ edits_left = ExampleEdits
    /\ simple_out = NotRun
    /\ df_out = NotRun
    /\ ExplorerOff
    /\ StatsOff
    /\ persisted = NothingPersisted

NextExample ==
    \/ \E y \in YearSet : DropImportTable(y)
    \/ \E y \in YearSet, p \in PartnerLabels, v \in TradeValues : InsertImportRow(y, p, v)
    \/ \E e \in EconomyLabels, sc \in TimelinessScores : InsertLpiRow(e, sc)
    \/ \E e \in EconomyLabels, r \in RiskPremiums : InsertRiskRow(e, r)
    \/ SimpleRun
    \/ DFRun

SpecExample == InitExample /\ [][NextExample]_vars

\* The batch calculators over a database that already holds two countries:
\* USA imported in 2022 and 2023, France in 2023, both with a timeliness score
\* and a risk premium; the data provider edits it further.
LoadedDb ==
    [imports |->
        [y \in YearSet |->
            IF y = 2022
            THEN [exists |-> TRUE,
                  rows |-> <<[PartnerName |-> "USA", TradeValuein1000USD |-> 50]>>]
            ELSE IF y = 2023
            THEN [exists |-> TRUE,
                  rows |-> <<[PartnerName |-> "France", TradeValuein1000USD |-> 50],
                             [PartnerName |-> "USA", TradeValuein1000USD |-> 50]>>]
            ELSE EmptyTable],
     lpi |-> [exists |-> TRUE,
              rows |-> <<[Economy |-> "USA", TimelinessScore |-> <<4, 1>>],
                         [Economy |-> "France", TimelinessScore |-> <<4, 1>>]>>],
     risk |-> [exists |-> TRUE,
               rows |-> <<[Economy |-> "USA", RiskPremium |-> <<1, 20>>],
                          [Economy |-> "France", RiskPremium |-> <<1, 20>>]>>]]

\* Edits the data provider makes to the loaded database.
LoadedEdits == 2

InitLoaded ==
    /\ norm = NormIdle
    /\ db = LoadedDb
    /\ edits_left = LoadedEdits
    /\ simple_out = NotRun
    /\ df_out = NotRun
    /\ ExplorerOff
    /\ StatsOff
    /\ persisted = NothingPersisted

NextLoaded ==
    \/ \E y \in YearSet : DropImportTable(y)
    \/ \E y \in YearSet, p \in PartnerLabels, v \in TradeValues : InsertImportRow(y, p, v)
    \/ \E e \in EconomyLabels, sc \in TimelinessScores : InsertLpiRow(e, sc)
    \/ \E e \in EconomyLabels, r \in RiskPremiums : InsertRiskRow(e, r)
    \/ SimpleRun
    \/ DFRun

SpecLoaded == InitLoaded /\ [][NextLoaded]_vars

\* Batch runs of either script, one after the other, over source tables the
\* data provider replaces in between.
MainDbs == {EmptyDb, LoadedDb} \cup {ExampleDb(a, b, c) : a, b, c \in FranceLabels}

InitMain ==
    /\ norm = NormIdle
    /\ db \in MainDbs
    /\ edits_left = 0
    /\ simple_out = NotRun
    /\ df_out = NotRun
    /\ ExplorerOff
    /\ StatsOff
    /\ persisted = NothingPersisted

NextMain ==
    \/ SimpleMain
    \/ DFMain
    \/ \E d \in MainDbs : ReplaceSources(d)

SpecMain == InitMain /\ [][NextMain]_vars

\* The explorer, either script, opened on every table and driven through its
\* widgets.
InitExplorer ==
    /\ norm = NormIdle
    /\ db = EmptyDb
    /\ edits_left = 0
    /\ simple_out = NotRun
    /\ df_out = NotRun
    /\ app \in {"agg", "viz"}
    /\ raiv_df \in SmallTables \cup WideTables
    /\ widgets = DefaultWidgets(app, raiv_df)
    /\ page = NoPage
    /\ StatsOff
    /\ persisted = NothingPersisted

NextExplorer ==
    \/ OpenApp
    \/ \E x \in WeightChoices(app, "raiv_weight") : SetRaivWeight(x)
    \/ \E x \in WeightChoices(app, "timeliness_weight") : SetTimelinessWeight(x)
    \/ \E x \in WeightChoices(app, "risk_weight") : SetRiskWeight(x)
    \/ \E codes \in SUBSET HsCodes : SelectHsCodes(codes)
    \/ \E years \in SUBSET Years : SelectYears(years)
    \/ \E n \in TopNChoices : SetTopN(n)

SpecExplorer == InitExplorer /\ [][NextExplorer]_vars

\* generate_summary_statistics, both implementations, on every record list.
InitStats ==
    /\ norm = NormIdle
    /\ db = EmptyDb
    /\ edits_left = 0
    /\ simple_out = NotRun
    /\ df_out = NotRun
    /\ ExplorerOff
    /\ persisted = NothingPersisted
    /\ stats \in {[results |-> r, simple |-> NotRun, df |-> NotRun] :
                    r \in UNION {[1..n -> StatRecords] : n \in 0..MaxStatRecords}}

NextStats == SimpleStats \/ DFStats

SpecStats == InitStats /\ [][NextStats]_vars

(***************************************************************************)
(* Properties of the batch calculators                                     *)
(***************************************************************************)
Outputs == {simple_out, df_out}
Records(out) == {out.results[i] : i \in DOMAIN out.results}

\* n^t for t in 0..2
IntPow(n, t) == IF t = 0 THEN 1 ELSE IF t = 1 THEN n ELSE n * n

\* r.RAIV = r.ImportValue * r.TimelinessScore / (1 + r.RiskPremium)^r.t_value,
\* stated by cross-multiplication; where the divisor is zero the quotient is
\* the IEEE one (an infinity, or NaN for 0/0).
FormulaHolds(r) ==
    LET num == r.ImportValue[1] * r.TimelinessScore[1]
        den == r.ImportValue[2] * r.TimelinessScore[2]
        bn == IntPow(r.RiskPremium[1] + r.RiskPremium[2], r.t_value)
        bd == IntPow(r.RiskPremium[2], r.t_value)
    IN  IF bn = 0 THEN r.RAIV = <<Sign(num), 0>>
        ELSE /\ r.RAIV[2] > 0
             /\ r.RAIV[1] * den * bn = num * bd * r.RAIV[2]

\* C1: every record either calculator returns has Year in {2022, 2023, 2024},
\* t_value = Year - 2022 and RAIV = ImportValue * TimelinessScore /
\* (1 + RiskPremium)^t_value; a 2022 record has RAIV = ImportValue *
\* TimelinessScore exactly.
C1_FormulaOnEveryRecord ==
    \A out \in Outputs : \A r \in Records(out) :
        /\ r.Year \in {2022, 2023, 2024}
        /\ r.t_value = r.Year - 2022
        /\ FormulaHolds(r)
        /\ r.Year = 2022 =>
              /\ r.RAIV[2] > 0
              /\ r.RAIV[1] * r.ImportValue[2] * r.TimelinessScore[2]
                    = r.ImportValue[1] * r.TimelinessScore[1] * r.RAIV[2]

\* Both calculators returned a discounted 2024 record and a 2022 record.
C1_Witness ==
    \A out \in Outputs :
        /\ \E r \in Records(out) :
              r.Year = 2024 /\ r.RiskPremium = <<1, 20>> /\ r.RAIV = <<80000, 441>>
        /\ \E r \in Records(out) : r.Year = 2022 /\ r.RAIV = <<200, 1>>

\* The non-world import rows, the scored LPI rows and the rated risk rows
\* whose label normalizes to country c.
ImportRowsOf(c, year) ==
    IF ~db.imports[year].exists THEN <<>>
    ELSE SelectSeq(db.imports[year].rows,
             LAMBDA r : r.PartnerName # "World"
                        /\ normalize_country_name(r.PartnerName) = c)
LpiRowsOf(c) ==
    IF ~db.lpi.exists THEN <<>>
    ELSE SelectSeq(db.lpi.rows,
             LAMBDA r : r.TimelinessScore # NULL
                        /\ normalize_country_name(r.Economy) = c)
RiskRowsOf(c) ==
    IF ~db.risk.exists THEN <<>>
    ELSE SelectSeq(db.risk.rows,
             LAMBDA r : r.RiskPremium # NULL
                        /\ normalize_country_name(r.Economy) = c)

\* C2: the join is strictly inner. A country missing from that year's import
\* table, from the non-null LPI rows or from the non-null risk rows has no
\* record for that year; the factors of every record come from source rows
\* (nothing is default-filled).
C2_StrictlyInnerJoin ==
    \A out \in Outputs : \A r \in Records(out) :
        /\ ImportRowsOf(r.Country, r.Year) # <<>>
        /\ \E i \in DOMAIN LpiRowsOf(r.Country) :
              LpiRowsOf(r.Country)[i].TimelinessScore = r.TimelinessScore
        /\ \E i \in DOMAIN RiskRowsOf(r.Country) :
              RiskRowsOf(r.Country)[i].RiskPremium = r.RiskPremium

\* Both calculators ran on a database where France has 2023 imports and a
\* score but only a NULL risk premium, while USA is complete.
C2_Witness ==
    /\ simple_out.ran /\ df_out.ran
    /\ ImportRowsOf("France", 2023) # <<>>
    /\ LpiRowsOf("France") # <<>>
    /\ RiskRowsOf("France") = <<>>
    /\ \E i \in DOMAIN db.risk.rows : db.risk.rows[i].Economy = "France"
    /\ \A out \in Outputs : \A r \in Records(out) : r.Country # "France"

\* The sum of the trade values of the year's non-world rows labelled c after
\* normalization.
ImportTotal(c, year) ==
    LET rows == ImportRowsOf(c, year)
    IN  RSum([i \in DOMAIN rows |-> FromInt(rows[i].TradeValuein1000USD)])

\* C5: the ImportValue used for a country is the sum over all the year's
\* non-world import rows whose normalized label is that country (the values of
\* raw labels with the same canonical name are merged by summation).
C5_ImportValueIsSumOverCanonicalName ==
    \A out \in Outputs : \A r \in Records(out) :
        r.ImportValue = ImportTotal(r.Country, r.Year)

\* C10: on the same database both calculators return the same sequence of
\* records.
C10_SameRecords ==
    (simple_out.ran /\ df_out.ran) => simple_out.results = df_out.results

\* The record of the worked example.
ExampleRecord ==
    [Country |-> "France", Year |-> 2022, ImportValue |-> <<50, 1>>,
     TimelinessScore |-> <<4, 1>>, RiskPremium |-> <<1, 20>>, t_value |-> 0,
     RAIV |-> <<200, 1>>]

\* C3: normalization is applied to all three sources before the join. On the
\* worked example, however France is spelled in each of the three tables, the
\* result is exactly one record (France, 2022, 50, 4.0, 0.05, t=0, RAIV 200.0)
\* and USA is dropped.
C3_WorkedExample ==
    \A out \in Outputs :
        (out.ran /\ edits_left = ExampleEdits) => out.results = <<ExampleRecord>>

\* Both calculators ran on the example as the specification words it.
C3_Witness ==
    /\ db = ExampleDb("France+Monac", "France", "France")
    /\ \A out \in Outputs : out.ran /\ out.results = <<ExampleRecord>>

\* C4: the normalizer returns the table's value for a key and the input
\* otherwise, and applying it to its own output changes nothing; no canonical
\* value of either table is a key of it.
C4_NormalizerIdempotent ==
    /\ \A runs \in {norm.simple, norm.df} :
          /\ runs # <<>> =>
                runs[1] = IF norm.raw \in DOMAIN name_mappings
                          THEN name_mappings[norm.raw] ELSE norm.raw
          /\ \A i \in 2..Len(runs) : runs[i] = runs[1]
    /\ Range(name_mappings) \cap DOMAIN name_mappings = {}
    /\ Range(df_name_mappings) \cap DOMAIN df_name_mappings = {}

\* Both normalizers were applied twice to a key whose value is "Republic of
\* Ireland".
C4_Witness ==
    /\ norm.raw = "Ireland"
    /\ norm.simple = <<"Republic of Ireland", "Republic of Ireland">>
    /\ norm.df = <<"Republic of Ireland", "Republic of Ireland">>


\* C6: a run whose three weights sum to zero renders the error and nothing
\* else (no scores, no ranked table, no download); every other run scores with
\* the weights divided by their sum, which are non-negative and sum to 1.
C6_WeightsNormalizedOrRejected ==
    page.status # "none" =>
        LET total == RSum(<<widgets.raiv_weight, widgets.timeliness_weight,
                            widgets.risk_weight>>)
        IN  IF total = Zero
            THEN /\ page.status = "error"
                 /\ page.error # ""
                 /\ page.weights = <<>> /\ page.scored_df = <<>> /\ page.top_df = <<>>
                 /\ ~page.table_shown /\ ~page.download /\ page.csv = <<>>
            ELSE /\ page.status = "ok"
                 /\ page.error = ""
                 /\ Len(page.weights) = 3
                 /\ \A i \in 1..3 : IsFinite(page.weights[i]) /\ page.weights[i][1] >= 0
                 /\ RSum(page.weights) = One
                 /\ RMul(page.weights[1], total) = widgets.raiv_weight
                 /\ RMul(page.weights[2], total) = widgets.timeliness_weight
                 /\ RMul(page.weights[3], total) = widgets.risk_weight
                 /\ page.table_shown /\ page.download

\* An all-zero weighting has been rejected on a non-empty table.
C6_Witness ==
    /\ page.status = "error"
    /\ raiv_df # <<>>
    /\ widgets.raiv_weight = Zero /\ widgets.timeliness_weight = Zero
    /\ widgets.risk_weight = Zero

\* C7: the ranked table holds the min(top_n, rows) best rows of the scored
\* table in descending CompositeScore, rows with equal scores in their input
\* order, and no row left out scores strictly higher than a row shown.
C7_StableDescendingTopN ==
    page.status = "ok" =>
        LET t == page.top_df
            s == page.scored_df
        IN  /\ Len(t) = (IF widgets.top_n < Len(s) THEN widgets.top_n ELSE Len(s))
            /\ \E p \in [DOMAIN t -> DOMAIN s] :
                  /\ \A a \in DOMAIN t : s[p[a]] = t[a]
                  /\ \A a, b \in DOMAIN t :
                        a < b =>
                          /\ p[a] # p[b]
                          /\ ~RLess(t[a].CompositeScore, t[b].CompositeScore)
                          /\ t[a].CompositeScore = t[b].CompositeScore => p[a] < p[b]
                  /\ \A a \in DOMAIN t, j \in DOMAIN s :
                        (\A b \in DOMAIN t : p[b] # j) =>
                            ~RLess(t[a].CompositeScore, s[j].CompositeScore)

SelectedRows ==
    {i \in DOMAIN raiv_df : /\ raiv_df[i].HS_Code \in widgets.selected_hs_codes
                            /\ raiv_df[i].Year \in widgets.selected_years}
RowsOf(c) == {i \in SelectedRows : raiv_df[i].PartnerName = c}
RECURSIVE SumOver(_, _)
SumOver(idx, name) ==
    IF idx = {} THEN Zero
    ELSE LET i == CHOOSE i \in idx : TRUE
         IN  RAdd(raiv_df[i][name], SumOver(idx \ {i}, name))

\* C8: the aggregating explorer's scored table has exactly one row for every
\* country with a selected row (HS code and year both selected) and none for
\* any other; the row's RAIV is the sum, its TimelinessScore and RiskScore the
\* means, over that country's selected rows only.
C8_AggregationOverSelectedRows ==
    (app = "agg" /\ page.status = "ok") =>
        /\ \A c \in {raiv_df[i].PartnerName : i \in DOMAIN raiv_df} :
              Cardinality({k \in DOMAIN page.scored_df :
                              page.scored_df[k].PartnerName = c})
                = (IF RowsOf(c) = {} THEN 0 ELSE 1)
        /\ \A k \in DOMAIN page.scored_df :
              LET r == page.scored_df[k]
                  n == FromInt(Cardinality(RowsOf(r.PartnerName)))
              IN  /\ RowsOf(r.PartnerName) # {}
                  /\ r.RAIV = SumOver(RowsOf(r.PartnerName), "RAIV")
                  /\ RMul(r.TimelinessScore, n)
                        = SumOver(RowsOf(r.PartnerName), "TimelinessScore")
                  /\ RMul(r.RiskScore, n) = SumOver(RowsOf(r.PartnerName), "RiskScore")

\* One country with two selected rows of different values has been aggregated.
C8_Witness ==
    /\ app = "agg" /\ page.status = "ok"
    /\ \E c \in Partners :
          /\ Cardinality(RowsOf(c)) = 2
          /\ \E i, j \in RowsOf(c) : raiv_df[i].RAIV # raiv_df[j].RAIV
          /\ \E k \in DOMAIN page.scored_df :
                page.scored_df[k].PartnerName = c /\ page.scored_df[k].RAIV = FromInt(100)

\* The RAIV values of the records of year y handed to generate_summary_statistics.
RaivsOf(y) == Column(SelectSeq(stats.results, LAMBDA r : r.Year = y), "RAIV")
\* The k-th smallest of the values s.
Kth(s, k) ==
    CHOOSE x \in Range(s) :
        /\ Cardinality({i \in DOMAIN s : RLess(s[i], x)}) < k
        /\ k <= Cardinality({i \in DOMAIN s : ~RLess(x, s[i])})
\* Mean of the squares minus the square of the mean.
PopulationVariance(s) ==
    RSub(RDiv(RSum([i \in DOMAIN s |-> RMul(s[i], s[i])]), FromInt(Len(s))),
         RMul(RDiv(RSum(s), FromInt(Len(s))), RDiv(RSum(s), FromInt(Len(s)))))
\* count, mean, median, std, min, max are the statistics of the values s.
IsSummaryOf(count, mean, med, std, min, max, s) ==
    /\ count = Len(s)
    /\ mean = Round4(RDiv(RSum(s), FromInt(Len(s))))
    /\ med = Round4(IF Len(s) % 2 = 1 THEN Kth(s, (Len(s) + 1) \div 2)
                    ELSE RDiv(RAdd(Kth(s, Len(s) \div 2), Kth(s, (Len(s) \div 2) + 1)),
                              FromInt(2)))
    /\ std = Round4Sqrt(PopulationVariance(s))
    /\ min \in Range(s) /\ \A i \in DOMAIN s : ~RLess(s[i], min)
    /\ max \in Range(s) /\ \A i \in DOMAIN s : ~RLess(max, s[i])
YearsPresent == {stats.results[i].Year : i \in DOMAIN stats.results}

\* C9: generate_summary_statistics, in both implementations, emits one record
\* per year present, with the count, the mean, the median (middle value, or
\* average of the two middle values), the population standard deviation, the
\* minimum and the maximum of that year's RAIV values.
C9_SummaryStatistics ==
    /\ stats.simple.ran =>
          LET out == stats.simple.results
          IN  /\ \A y \in YearsPresent :
                    Cardinality({i \in DOMAIN out : out[i].Year = y}) = 1
              /\ \A i \in DOMAIN out :
                    /\ out[i].Year \in YearsPresent
                    /\ IsSummaryOf(out[i].Count, out[i].RAIV_Mean, out[i].RAIV_Median,
                                   out[i].RAIV_Std, out[i].RAIV_Min, out[i].RAIV_Max,
                                   RaivsOf(out[i].Year))
    /\ stats.df.ran =>
          LET out == stats.df.results
          IN  /\ \A y \in YearsPresent :
                    Cardinality({i \in DOMAIN out : out[i].Year = y}) = 1
              /\ \A i \in DOMAIN out :
                    /\ out[i].Year \in YearsPresent
                    /\ IsSummaryOf(out[i].RAIV_count, out[i].RAIV_mean, out[i].RAIV_median,
                                   out[i].RAIV_std, out[i].RAIV_min, out[i].RAIV_max,
                                   RaivsOf(out[i].Year))

\* The records of year y in a calculator's output, and how often r is in s.
OfYear(out, y) == SelectSeq(out.results, LAMBDA r : r.Year = y)
Count(s, r) == Cardinality({i \in DOMAIN s : s[i] = r})
SourceEmpty(y) ==
    db.imports[y].rows = <<>> \/ db.lpi.rows = <<>> \/ db.risk.rows = <<>>

\* C11: each of 2022, 2023, 2024 is attempted: the output of
\* calculate_raiv_all_years holds, for every year, exactly the records that
\* year's calculation produces on its own (none when it raises, none when the
\* year's import table, the LPI table or the risk table is empty), whatever
\* happens to the other years.
C11_YearIsolation ==
    /\ simple_out.ran =>
          \A y \in YearSet :
              LET own == SimpleRAIVCalculator_calculate_raiv_for_year(y)
                  mine == IF own.raised THEN <<>> ELSE own.results
              IN  /\ Len(OfYear(simple_out, y)) = Len(mine)
                  /\ \A r \in Range(mine) : Count(OfYear(simple_out, y), r) = Count(mine, r)
                  /\ SourceEmpty(y) => OfYear(simple_out, y) = <<>>
    /\ df_out.ran =>
          \A y \in YearSet :
              LET mine == RAIVCalculator_calculate_raiv_for_year(y)
              IN  /\ Len(OfYear(df_out, y)) = Len(mine)
                  /\ \A r \in Range(mine) : Count(OfYear(df_out, y), r) = Count(mine, r)
                  /\ SourceEmpty(y) => OfYear(df_out, y) = <<>>

\* The dictionary calculator has finished a run in which one year raised and
\* another year's records are in the output.
C11_Witness ==
    /\ simple_out.ran
    /\ \E y \in YearSet : SimpleRAIVCalculator_calculate_raiv_for_year(y).raised
    /\ simple_out.results # <<>>

\* The canonical countries of the labels the import tables can hold.
Countries == {normalize_country_name(l) : l \in PartnerLabels \ {"World"}}
\* Country c has a non-world import row of year y, a scored LPI row and a
\* rated risk row, and no risk premium of -1.
CompleteAndSafe(c, y) ==
    /\ ImportRowsOf(c, y) # <<>>
    /\ LpiRowsOf(c) # <<>>
    /\ RiskRowsOf(c) # <<>>
    /\ \A i \in DOMAIN RiskRowsOf(c) : RiskRowsOf(c)[i].RiskPremium # <<-1, 1>>

\* C12: a risk premium of -1 costs no other country its record: every country
\* with data in all three sources for a year, and no premium of -1, has a
\* record of that year in the output of calculate_raiv_all_years.
C12_DivisionByZeroIsolated ==
    \A out \in Outputs :
        out.ran =>
            \A y \in YearSet, c \in Countries :
                CompleteAndSafe(c, y) =>
                    \E r \in Records(out) : r.Country = c /\ r.Year = y

\* C13: a fetch on a missing table does not propagate the fault: during a run
\* get_import_data, get_lpi_data and get_risk_premium_data each return to
\* their caller, with an empty result when their table cannot be queried.
C13_FetchFaultsContained ==
    /\ simple_out.ran =>
          /\ \A y \in YearSet :
                /\ ~SimpleRAIVCalculator_get_import_data(y).raised
                /\ ~db.imports[y].exists =>
                      SimpleRAIVCalculator_get_import_data(y).data = <<>>
          /\ ~SimpleRAIVCalculator_get_lpi_data.raised
          /\ ~db.lpi.exists => SimpleRAIVCalculator_get_lpi_data.data = <<>>
          /\ ~SimpleRAIVCalculator_get_risk_premium_data.raised
          /\ ~db.risk.exists => SimpleRAIVCalculator_get_risk_premium_data.data = <<>>
    /\ df_out.ran =>
          /\ \A y \in YearSet :
                ~db.imports[y].exists => RAIVCalculator_get_import_data(y) = <<>>
          /\ ~db.lpi.exists => RAIVCalculator_get_lpi_data = <<>>
          /\ ~db.risk.exists => RAIVCalculator_get_risk_premium_data = <<>>

C15_OutputsReplacedOnEachRun ==
    persisted.runs > 0 =>
        /\ persisted.csv = persisted.last_results
        /\ persisted.RAIV_Results = persisted.last_results

\* C16: the records either calculator returns are in ascending order of
\* Country and, within one country, in ascending order of Year.
C16_SortedByCountryThenYear ==
    \A o \in Outputs :
        \A i, j \in DOMAIN o.results :
            i < j =>
                \/ StrLess(o.results[i].Country, o.results[j].Country)
                \/ /\ o.results[i].Country = o.results[j].Country
                   /\ o.results[i].Year <= o.results[j].Year

\* A run whose output has a record of a later year ahead of a record of an
\* earlier year: the order the years were calculated in was not kept.
C16_Witness ==
    /\ simple_out.ran
    /\ df_out.ran
    /\ \A o \in Outputs :
           \E i, j \in DOMAIN o.results :
               i < j /\ o.results[i].Year > o.results[j].Year

\* C17: the records either calculator returns hold at most one record for
\* each (Country, Year) pair, whatever labels the source tables repeat.
C17_OneRecordPerCountryAndYear ==
    \A o \in Outputs :
        \A i, j \in DOMAIN o.results :
            /\ o.results[i].Country = o.results[j].Country
            /\ o.results[i].Year = o.results[j].Year
            => i = j

\* C18: on every page recommendations_app.py renders with weights that do not
\* sum to zero, each row of the aggregated table has a CompositeScore that is
\* a number in [0, 1], also when the largest aggregated RAIV or RiskScore is 0.
C18_CompositeScoreDefinedInUnitInterval ==
    (app = "agg" /\ page.status = "ok") =>
        \A i \in DOMAIN page.scored_df :
            /\ IsFinite(page.scored_df[i].CompositeScore)
            /\ ~RLess(page.scored_df[i].CompositeScore, Zero)
            /\ ~RLess(One, page.scored_df[i].CompositeScore)

=============================================================================
